---- MODULE Spec2Model ----
(***************************************************************************)
(* Campaign Creation: the state machine (campaign.machine.ts), the rule     *)
(* validator (campaign.rules.ts) and the validate use case                  *)
(* (validateCampaign.usecase.ts) of AdSphere, with the boundary schema and   *)
(* the CampaignForm component that drives them.                             *)
(*                                                                          *)
(* Representation.  A string the code inspects character by character       *)
(* (name, startTime, endTime) is a sequence of one-character strings; a     *)
(* string the code only stores is a TLA+ string.  A JavaScript number that  *)
(* may be NaN (a parsed time or date, sizeInMb) is a record [nan, val].     *)
(* Date.parse is the table DateParse                                        *)
(* over the date strings of the model, in seconds instead of milliseconds.  *)
(* A message is a sequence of strings (its fragments, in order).            *)
(***************************************************************************)
EXTENDS Integers, Sequences, FiniteSets, TLC

\* current: the CampaignCreationState the caller holds.
\* prev:    the state the last call was given.
\* lastOp:  the last call (transition with its event, or validateCampaign).
\* sameRef: whether the last call returned the very object it was given.
\* steps:   the table rows other than SYSTEM_ERROR that took effect since
\*          the draft was last set, oldest first.
\* rendered: the state CampaignForm's handlers close over (the last render).
\* queue:    the updaters given to setState since the last render.
VARIABLES current, prev, lastOp, sameRef, steps, rendered, queue

vars == <<current, prev, lastOp, sameRef, steps, rendered, queue>>

\* ---------------------------------------------------------------- bounds

\* Longest timeSlots list of a draft the callers of the model supply.
MaxSlots == 2

\* ------------------------------------------------------- JavaScript numbers

Num(v) == [nan |-> FALSE, val |-> v]

NaN == [nan |-> TRUE, val |-> 0]

isNaN(x) == x.nan

\* a > b and a >= b of JavaScript: false as soon as one side is NaN.
NumGt(a, b) == ~a.nan /\ ~b.nan /\ a.val > b.val

NumGe(a, b) == ~a.nan /\ ~b.nan /\ a.val >= b.val

\* `${x}` of a number.
numToString(x) == IF x.nan THEN "NaN" ELSE ToString(x.val)

\* ------------------------------------------------------------------ helpers

makeError(code, message) == [code |-> code, message |-> message]

Digits == {"0", "1", "2", "3", "4", "5", "6", "7", "8", "9"}

DigitVal(c) ==
    CASE c = "0" -> 0 [] c = "1" -> 1 [] c = "2" -> 2 [] c = "3" -> 3
      [] c = "4" -> 4 [] c = "5" -> 5 [] c = "6" -> 6 [] c = "7" -> 7
      [] c = "8" -> 8 [] c = "9" -> 9

\* /^(\d{2}):(\d{2})$/ then parseInt of each group, hours > 23 or
\* minutes > 59 rejected, hours * 60 + minutes returned.
parseHHmm(value) ==
    IF /\ Len(value) = 5
       /\ value[1] \in Digits /\ value[2] \in Digits
       /\ value[3] = ":"
       /\ value[4] \in Digits /\ value[5] \in Digits
    THEN LET hours == DigitVal(value[1]) * 10 + DigitVal(value[2])
             minutes == DigitVal(value[4]) * 10 + DigitVal(value[5])
         IN IF hours > 23 \/ minutes > 59 THEN NaN
            ELSE Num(hours * 60 + minutes)
    ELSE NaN

WhiteSpace == {" ", "\t"}

RECURSIVE trimStart(_)
trimStart(s) ==
    IF Len(s) > 0 /\ Head(s) \in WhiteSpace THEN trimStart(Tail(s)) ELSE s

RECURSIVE trimEnd(_)
trimEnd(s) ==
    IF Len(s) > 0 /\ s[Len(s)] \in WhiteSpace
    THEN trimEnd(SubSeq(s, 1, Len(s) - 1))
    ELSE s

\* String.prototype.trim
trim(s) == trimEnd(trimStart(s))

\* The date strings of the model and what Date.parse returns for each
\* (seconds since the epoch; NaN for a string that is no date).
DateStrings ==
    {"", "not-a-date", "2026-12-01T00:00:00Z", "2026-12-31T23:59:59Z"}

DateParse(s) ==
    CASE s = "2026-12-01T00:00:00Z" -> Num(1796083200)
      [] s = "2026-12-31T23:59:59Z" -> Num(1798761599)
      [] OTHER -> NaN

\* ------------------------------------------------------------------ rules

\* Rule 1
validateName(draft) ==
    IF Len(trim(draft.name)) = 0
    THEN <<makeError("EMPTY_NAME", <<"Campaign name must not be empty.">>)>>
    ELSE <<>>

\* Mutant: equal dates are accepted (start > end).
validateDateRange_strict(draft) ==
    LET start == DateParse(draft.startDate)
        end == DateParse(draft.endDate)
    IN IF isNaN(start) \/ isNaN(end)
       THEN <<makeError("INVALID_DATE_FORMAT",
                <<"startDate and endDate must be valid ISO 8601 strings.">>)>>
       ELSE IF NumGt(start, end)
            THEN <<makeError("INVALID_DATE_RANGE",
                     <<"startDate must be before endDate.">>)>>
            ELSE <<>>

\* Rule 2
validateDateRange(draft) ==
    LET start == DateParse(draft.startDate)
        end == DateParse(draft.endDate)
    IN IF isNaN(start) \/ isNaN(end)
       THEN <<makeError("INVALID_DATE_FORMAT",
                <<"startDate and endDate must be valid ISO 8601 strings.">>)>>
       ELSE IF NumGe(start, end)
            THEN <<makeError("INVALID_DATE_RANGE",
                     <<"startDate must be before endDate.">>)>>
            ELSE <<>>

\* Mutant: blank screen ids do not count (screenIds.filter(Boolean)).
validateScreenIds_rejectsBlank(draft) ==
    LET NotBlank(id) == id # ""
    IN IF Len(SelectSeq(draft.screenIds, NotBlank)) = 0
       THEN <<makeError("EMPTY_SCREEN_SELECTION",
                <<"At least one screen must be selected.">>)>>
       ELSE <<>>

\* Rule 3
validateScreenIds(draft) ==
    IF Len(draft.screenIds) = 0
    THEN <<makeError("EMPTY_SCREEN_SELECTION",
             <<"At least one screen must be selected.">>)>>
    ELSE <<>>

\* Mutant: a slot that ends when it starts is accepted (start > end).
slotFormatErrors_strict(slot) ==
    LET start == parseHHmm(slot.startTime)
        end == parseHHmm(slot.endTime)
    IN IF isNaN(start) \/ isNaN(end)
       THEN <<makeError("INVALID_TIME_FORMAT",
                <<"Time slot \"">> \o slot.startTime \o <<" - ">>
                \o slot.endTime
                \o <<"\" contains an invalid HH:mm value.">>)>>
       ELSE IF NumGt(start, end)
            THEN <<makeError("INVALID_TIME_FORMAT",
                     <<"Time slot startTime \"">> \o slot.startTime
                     \o <<"\" must be before endTime \"">> \o slot.endTime
                     \o <<"\".">>)>>
            ELSE <<>>

\* The body of the first loop of validateTimeSlots, for one slot.
slotFormatErrors(slot) ==
    LET start == parseHHmm(slot.startTime)
        end == parseHHmm(slot.endTime)
    IN IF isNaN(start) \/ isNaN(end)
       THEN <<makeError("INVALID_TIME_FORMAT",
                <<"Time slot \"">> \o slot.startTime \o <<" - ">>
                \o slot.endTime
                \o <<"\" contains an invalid HH:mm value.">>)>>
       ELSE IF NumGe(start, end)
            THEN <<makeError("INVALID_TIME_FORMAT",
                     <<"Time slot startTime \"">> \o slot.startTime
                     \o <<"\" must be before endTime \"">> \o slot.endTime
                     \o <<"\".">>)>>
            ELSE <<>>

\* The first loop of validateTimeSlots: the slots in order.
RECURSIVE formatErrors(_)
formatErrors(slots) ==
    IF slots = <<>> THEN <<>>
    ELSE slotFormatErrors(Head(slots)) \o formatErrors(Tail(slots))

\* The comparator of the sort: a negative, zero or positive difference of
\* the start times; JavaScript's sort is stable, so x goes after every
\* element that does not compare greater than it.
RECURSIVE insertByStart(_, _)
insertByStart(x, sorted) ==
    IF sorted = <<>> THEN <<x>>
    ELSE IF parseHHmm(Head(sorted).startTime).val
              - parseHHmm(x.startTime).val > 0
         THEN <<x>> \o sorted
         ELSE <<Head(sorted)>> \o insertByStart(x, Tail(sorted))

\* Mutant: the slots are scanned in the order given, unsorted.
sortByStart_unsorted(slots) == slots

\* [...draft.timeSlots].sort((a, b) => parseHHmm(a.startTime) - parseHHmm(b.startTime))
RECURSIVE sortByStart(_)
sortByStart(slots) ==
    IF slots = <<>> THEN <<>>
    ELSE insertByStart(slots[Len(slots)],
                       sortByStart(SubSeq(slots, 1, Len(slots) - 1)))

\* Mutant: slots that touch count as overlapping (currentEnd >= nextStart).
RECURSIVE overlapErrors_touching(_, _)
overlapErrors_touching(sorted, i) ==
    IF i > Len(sorted) - 1 THEN <<>>
    ELSE LET currentEnd == parseHHmm(sorted[i].endTime)
             nextStart == parseHHmm(sorted[i + 1].startTime)
             rest == overlapErrors_touching(sorted, i + 1)
         IN IF NumGe(currentEnd, nextStart)
            THEN <<makeError("OVERLAPPING_TIME_SLOTS", <<"overlap">>)>>
                 \o rest
            ELSE rest

\* The second loop of validateTimeSlots, from index i (1-based) on.
RECURSIVE overlapErrors(_, _)
overlapErrors(sorted, i) ==
    IF i > Len(sorted) - 1 THEN <<>>
    ELSE LET currentEnd == parseHHmm(sorted[i].endTime)
             nextStart == parseHHmm(sorted[i + 1].startTime)
             rest == overlapErrors(sorted, i + 1)
         IN IF NumGt(currentEnd, nextStart)
            THEN <<makeError("OVERLAPPING_TIME_SLOTS",
                     <<"Time slot \"">> \o sorted[i].startTime \o <<"-">>
                     \o sorted[i].endTime \o <<"\" overlaps with \"">>
                     \o sorted[i + 1].startTime \o <<"-">>
                     \o sorted[i + 1].endTime \o <<"\".">>)>> \o rest
            ELSE rest

\* Mutant: the well-formed slots are checked for overlaps even when some
\* other slot is malformed.
slotAccepted(slot) == slotFormatErrors(slot) = <<>>

validateTimeSlots_alwaysChecksOverlap(draft) ==
    formatErrors(draft.timeSlots)
    \o overlapErrors(sortByStart(SelectSeq(draft.timeSlots, slotAccepted)), 1)

\* Mutant: the list itself is sorted (draft.timeSlots.sort(...)).
timeSlotsAfter_sortedInPlace(draft) ==
    IF Len(formatErrors(draft.timeSlots)) = 0
    THEN sortByStart(draft.timeSlots)
    ELSE draft.timeSlots

\* draft.timeSlots once validateTimeSlots(draft) has returned: what is sorted
\* is the copy [...draft.timeSlots].
timeSlotsAfter(draft) == draft.timeSlots

\* Rule 4
validateTimeSlots(draft) ==
    LET errors == formatErrors(draft.timeSlots)
    IN IF Len(errors) = 0
       THEN overlapErrors(sortByStart(draft.timeSlots), 1)
       ELSE errors

\* Mutant: 50 MB itself is rejected (sizeInMb >= 50).
validateMediaAsset_inclusive(draft) ==
    (IF NumGe(draft.mediaAsset.sizeInMb, Num(50))
     THEN <<makeError("MEDIA_SIZE_EXCEEDS_LIMIT",
              <<"Media asset size ", numToString(draft.mediaAsset.sizeInMb),
                " MB exceeds the 50 MB limit.">>)>>
     ELSE <<>>)
    \o
    (IF draft.mediaAsset.type # "image" /\ draft.mediaAsset.type # "video"
     THEN <<makeError("MEDIA_TYPE_NOT_ALLOWED",
              <<"Media type \"", draft.mediaAsset.type,
                "\" is not allowed. Must be \"image\" or \"video\".">>)>>
     ELSE <<>>)

\* Rule 5
validateMediaAsset(draft) ==
    (IF NumGt(draft.mediaAsset.sizeInMb, Num(50))
     THEN <<makeError("MEDIA_SIZE_EXCEEDS_LIMIT",
              <<"Media asset size ", numToString(draft.mediaAsset.sizeInMb),
                " MB exceeds the 50 MB limit.">>)>>
     ELSE <<>>)
    \o
    (IF draft.mediaAsset.type # "image" /\ draft.mediaAsset.type # "video"
     THEN <<makeError("MEDIA_TYPE_NOT_ALLOWED",
              <<"Media type \"", draft.mediaAsset.type,
                "\" is not allowed. Must be \"image\" or \"video\".">>)>>
     ELSE <<>>)

\* The draft once validateCampaignDraft(draft) has returned; no rule assigns
\* to a field of it.
draftAfter(draft) == [draft EXCEPT !.timeSlots = timeSlotsAfter(draft)]

\* Mutant: the screen rule runs before the date rule.
validateCampaignDraft_screensFirst(draft) ==
    validateName(draft)
    \o validateScreenIds(draft)
    \o validateDateRange(draft)
    \o validateTimeSlots(draft)
    \o validateMediaAsset(draft)

validateCampaignDraft(draft) ==
    validateName(draft)
    \o validateDateRange(draft)
    \o validateScreenIds(draft)
    \o validateTimeSlots(draft)
    \o validateMediaAsset(draft)

\* ----------------------------------------------------------- state machine

Statuses ==
    {"idle", "editing", "validating", "invalid", "conflict_detected",
     "ready_to_publish", "published", "error"}

EventTypes ==
    {"START_CREATION", "UPDATE_DRAFT", "VALIDATE", "VALIDATION_RESULT",
     "PUBLISH", "SYSTEM_ERROR"}

\* What a call returns: the value, and whether it is the very object the
\* caller passed as `state` (return state) or a new object literal.
ReturnInput(s) == [state |-> s, sameRef |-> TRUE]

ReturnNew(s) == [state |-> s, sameRef |-> FALSE]

\* A function that ends without a return statement returns undefined.
Undefined == [status |-> "undefined"]

\* Mutant: the new draft has no screenId placeholder (screenIds: []).
emptyDraft_noPlaceholder ==
    [name |-> <<>>, startDate |-> "", endDate |-> "",
     screenIds |-> <<>>, timeSlots |-> <<>>,
     mediaAsset |-> [url |-> "", type |-> "image", sizeInMb |-> Num(0)]]

\* The draft START_CREATION creates.
emptyDraft ==
    [name |-> <<>>, startDate |-> "", endDate |-> "",
     screenIds |-> <<"">>, timeSlots |-> <<>>,
     mediaAsset |-> [url |-> "", type |-> "image", sizeInMb |-> Num(0)]]

\* Mutant: the terminal states are decided before SYSTEM_ERROR.
onSystemError_afterTerminal(state, event) ==
    IF state.status \in {"published", "error"}
    THEN ReturnInput(state)
    ELSE ReturnNew([status |-> "error", error |-> event.error])

\* if (event.type === "SYSTEM_ERROR")
onSystemError(state, event) ==
    ReturnNew([status |-> "error", error |-> event.error])

caseIdle(state, event) ==
    IF event.type = "START_CREATION"
    THEN ReturnNew([status |-> "editing", draft |-> emptyDraft])
    ELSE ReturnInput(state)

\* Mutant: PUBLISH is accepted while editing.
caseEditing_publishes(state, event) ==
    IF event.type = "UPDATE_DRAFT"
    THEN ReturnNew([status |-> "editing", draft |-> event.draft])
    ELSE IF event.type = "VALIDATE"
         THEN ReturnNew([status |-> "validating", draft |-> state.draft])
         ELSE IF event.type = "PUBLISH"
              THEN ReturnNew([status |-> "published",
                              campaignId |-> event.campaignId])
              ELSE ReturnInput(state)

\* Mutant: VALIDATE is not handled while editing.
caseEditing_ignoresValidate(state, event) ==
    IF event.type = "UPDATE_DRAFT"
    THEN ReturnNew([status |-> "editing", draft |-> event.draft])
    ELSE ReturnInput(state)

\* Mutant: VALIDATE starts from a fresh draft instead of state.draft.
caseEditing_validatesEmpty(state, event) ==
    IF event.type = "UPDATE_DRAFT"
    THEN ReturnNew([status |-> "editing", draft |-> event.draft])
    ELSE IF event.type = "VALIDATE"
         THEN ReturnNew([status |-> "validating", draft |-> emptyDraft])
         ELSE ReturnInput(state)

caseEditing(state, event) ==
    IF event.type = "UPDATE_DRAFT"
    THEN ReturnNew([status |-> "editing", draft |-> event.draft])
    ELSE IF event.type = "VALIDATE"
         THEN ReturnNew([status |-> "validating", draft |-> state.draft])
         ELSE ReturnInput(state)

\* Mutant: a conflict result is filed as invalid with no errors.
caseValidating_conflictAsInvalid(state, event) ==
    IF event.type = "VALIDATION_RESULT"
    THEN CASE event.result.type = "invalid" ->
                ReturnNew([status |-> "invalid", draft |-> state.draft,
                           errors |-> event.result.errors])
           [] event.result.type = "conflict" ->
                ReturnNew([status |-> "invalid", draft |-> state.draft,
                           errors |-> <<>>])
           [] event.result.type = "valid" ->
                ReturnNew([status |-> "ready_to_publish",
                           draft |-> state.draft])
           [] OTHER -> ReturnInput(state)
    ELSE ReturnInput(state)

caseValidating(state, event) ==
    IF event.type = "VALIDATION_RESULT"
    THEN CASE event.result.type = "invalid" ->
                ReturnNew([status |-> "invalid", draft |-> state.draft,
                           errors |-> event.result.errors])
           [] event.result.type = "conflict" ->
                ReturnNew([status |-> "conflict_detected",
                           draft |-> state.draft])
           [] event.result.type = "valid" ->
                ReturnNew([status |-> "ready_to_publish",
                           draft |-> state.draft])
           [] OTHER -> ReturnInput(state)
    ELSE ReturnInput(state)

\* Mutant: a non-applicable event returns a copy of the state.
caseInvalid_copies(state, event) ==
    IF event.type = "UPDATE_DRAFT"
    THEN ReturnNew([status |-> "editing", draft |-> event.draft])
    ELSE ReturnNew(state)

\* Mutant: UPDATE_DRAFT spreads the old state ({...state, status, draft}).
caseInvalid_keepsErrors(state, event) ==
    IF event.type = "UPDATE_DRAFT"
    THEN ReturnNew([status |-> "editing", draft |-> event.draft,
                    errors |-> state.errors])
    ELSE ReturnInput(state)

\* Mutant: UPDATE_DRAFT replaces the draft and leaves status and errors.
caseInvalid_staysInvalid(state, event) ==
    IF event.type = "UPDATE_DRAFT"
    THEN ReturnNew([status |-> "invalid", draft |-> event.draft,
                    errors |-> state.errors])
    ELSE ReturnInput(state)

\* Mutant: invalid accepts no event at all.
caseInvalid_stuck(state, event) == ReturnInput(state)

caseInvalid(state, event) ==
    IF event.type = "UPDATE_DRAFT"
    THEN ReturnNew([status |-> "editing", draft |-> event.draft])
    ELSE ReturnInput(state)

caseConflictDetected(state, event) ==
    IF event.type = "UPDATE_DRAFT"
    THEN ReturnNew([status |-> "editing", draft |-> event.draft])
    ELSE ReturnInput(state)

\* Mutant: UPDATE_DRAFT reopens a validated draft.
caseReadyToPublish_reopens(state, event) ==
    IF event.type = "PUBLISH"
    THEN ReturnNew([status |-> "published", campaignId |-> event.campaignId])
    ELSE IF event.type = "UPDATE_DRAFT"
         THEN ReturnNew([status |-> "editing", draft |-> event.draft])
         ELSE ReturnInput(state)

\* Mutant: the published state keeps the draft.
caseReadyToPublish_keepsDraft(state, event) ==
    IF event.type = "PUBLISH"
    THEN ReturnNew([status |-> "published", campaignId |-> event.campaignId,
                    draft |-> state.draft])
    ELSE ReturnInput(state)

caseReadyToPublish(state, event) ==
    IF event.type = "PUBLISH"
    THEN ReturnNew([status |-> "published", campaignId |-> event.campaignId])
    ELSE ReturnInput(state)

\* Mutant: the terminal case has no return statement.
caseTerminal_noReturn(state, event) == ReturnNew(Undefined)

\* Mutant: PUBLISH on a published campaign takes the new campaignId.
caseTerminal_republishes(state, event) ==
    IF state.status = "published" /\ event.type = "PUBLISH"
    THEN ReturnNew([status |-> "published", campaignId |-> event.campaignId])
    ELSE ReturnInput(state)

\* Mutant: START_CREATION restarts the flow from error.
caseTerminal_restarts(state, event) ==
    IF state.status = "error" /\ event.type = "START_CREATION"
    THEN ReturnNew([status |-> "editing", draft |-> emptyDraft])
    ELSE ReturnInput(state)

\* case "published": case "error":
caseTerminal(state, event) == ReturnInput(state)

transition(state, event) ==
    IF event.type = "SYSTEM_ERROR" THEN onSystemError(state, event)
    ELSE CASE state.status = "idle" -> caseIdle(state, event)
           [] state.status = "editing" -> caseEditing(state, event)
           [] state.status = "validating" -> caseValidating(state, event)
           [] state.status = "invalid" -> caseInvalid(state, event)
           [] state.status = "conflict_detected" ->
                caseConflictDetected(state, event)
           [] state.status = "ready_to_publish" ->
                caseReadyToPublish(state, event)
           [] state.status \in {"published", "error"} ->
                caseTerminal(state, event)
           [] OTHER -> ReturnNew(Undefined)

\* ---------------------------------------------------------------- use case

\* Mutant: one error is tolerated (errors.length > 1).
buildResult_offByOne(errors) ==
    IF Len(errors) > 1
    THEN [type |-> "invalid", errors |-> <<errors[1]>> \o Tail(errors)]
    ELSE [type |-> "valid"]

\* Mutant: the first error is left out (errors.slice(1) alone).
buildResult_dropsFirst(errors) ==
    IF Len(errors) > 0
    THEN [type |-> "invalid", errors |-> Tail(errors)]
    ELSE [type |-> "valid"]

\* Mutant: overlapping time slots are reported as a conflict.
buildResult_conflictOnOverlap(errors) ==
    IF Len(errors) > 0
    THEN IF \E i \in 1..Len(errors) :
               errors[i].code = "OVERLAPPING_TIME_SLOTS"
         THEN [type |-> "conflict"]
         ELSE [type |-> "invalid", errors |-> <<errors[1]>> \o Tail(errors)]
    ELSE [type |-> "valid"]

\* Mutant: the result is invalid whatever the error list holds.
buildResult_alwaysInvalid(errors) == [type |-> "invalid", errors |-> errors]

\* Step 3: errors.length > 0 ? {invalid, [errors[0], ...errors.slice(1)]}
\*                           : {valid}
buildResult(errors) ==
    IF Len(errors) > 0
    THEN [type |-> "invalid", errors |-> <<errors[1]>> \o Tail(errors)]
    ELSE [type |-> "valid"]

\* Steps 1 to 4 of validateCampaign, with the events it dispatched to
\* transition, in order.
runValidation(state) ==
    LET validate == [type |-> "VALIDATE"]
        validatingState == transition(state, validate).state
    IN IF validatingState.status # "validating"
       THEN [state |-> state, sameRef |-> TRUE, dispatched |-> <<validate>>]
       ELSE LET errors == validateCampaignDraft(validatingState.draft)
                result == buildResult(errors)
                event == [type |-> "VALIDATION_RESULT", result |-> result]
            IN [state |-> transition(validatingState, event).state,
                sameRef |-> FALSE,
                dispatched |-> <<validate, event>>]

\* Mutant: an invalid state is sent back to editing.
validateCampaign_reopensInvalid(state) ==
    IF state.status = "invalid"
    THEN [state |-> [status |-> "editing", draft |-> state.draft],
          sameRef |-> FALSE, dispatched |-> <<>>]
    ELSE IF state.status # "editing"
         THEN [state |-> state, sameRef |-> TRUE, dispatched |-> <<>>]
         ELSE runValidation(state)

\* Mutant: a state that is not editing is returned as a copy.
validateCampaign_copies(state) ==
    IF state.status # "editing"
    THEN [state |-> state, sameRef |-> FALSE, dispatched |-> <<>>]
    ELSE runValidation(state)

validateCampaign(state) ==
    IF state.status # "editing"
    THEN [state |-> state, sameRef |-> TRUE, dispatched |-> <<>>]
    ELSE runValidation(state)

\* ------------------------------------------------------------------ inputs

SeqsUpTo(S, n) == UNION {[1..k -> S] : k \in 0..n}

\* "08:00"-"12:00" and "11:00"-"15:00" overlap; "25:00"-"12:00" is malformed.
SlotSamples ==
    {[startTime |-> <<"0", "8", ":", "0", "0">>,
      endTime |-> <<"1", "2", ":", "0", "0">>],
     [startTime |-> <<"1", "1", ":", "0", "0">>,
      endTime |-> <<"1", "5", ":", "0", "0">>],
     [startTime |-> <<"2", "5", ":", "0", "0">>,
      endTime |-> <<"1", "2", ":", "0", "0">>]}

NameSamples ==
    {<<>>, <<" ">>, <<" ", "\t">>, <<"A", "d">>, <<" ", "A", " ">>}

ScreenIdSamples == {<<>>, <<"">>, <<"screen-2">>}

MediaSamples ==
    {[url |-> "https://example.com/winter.jpg", type |-> t, sizeInMb |-> n] :
        t \in {"image", "video", "audio"},
        n \in {Num(12), Num(50), Num(51), NaN}}

\* mockDraft of campaign.machine.test.ts, with a shorter name.
validDraft ==
    [name |-> <<"A", "d">>,
     startDate |-> "2026-12-01T00:00:00Z",
     endDate |-> "2026-12-31T23:59:59Z",
     screenIds |-> <<"screen-2">>,
     timeSlots |-> <<>>,
     mediaAsset |-> [url |-> "https://example.com/winter.jpg",
                     type |-> "image", sizeInMb |-> Num(12)]]

\* The drafts callers put in UPDATE_DRAFT: the empty draft, and the valid
\* draft with one field replaced by each sample of that field.
Drafts ==
    {emptyDraft}
    \cup {[validDraft EXCEPT !.name = n] : n \in NameSamples}
    \cup {[validDraft EXCEPT !.startDate = a, !.endDate = b] :
            a \in DateStrings, b \in DateStrings}
    \cup {[validDraft EXCEPT !.screenIds = x] : x \in ScreenIdSamples}
    \cup {[validDraft EXCEPT !.timeSlots = x] :
            x \in SeqsUpTo(SlotSamples, MaxSlots)}
    \cup {[validDraft EXCEPT !.mediaAsset = m] : m \in MediaSamples}

CampaignIds == {"demo-id", "camp-42"}

SystemErrors == {[message |-> "Database unreachable"], [message |-> "m"]}

\* Well-typed errors payloads of a VALIDATION_RESULT(invalid) a caller
\* dispatches itself: non-empty lists.
ErrorPayloads ==
    {<<makeError("EMPTY_NAME", <<"Name is empty">>)>>,
     <<makeError("INVALID_DATE_RANGE", <<"startDate must be before endDate.">>),
       makeError("MEDIA_TYPE_NOT_ALLOWED", <<"type">>)>>}

ValidationResults ==
    {[type |-> "valid"], [type |-> "conflict"]}
    \cup {[type |-> "invalid", errors |-> e] : e \in ErrorPayloads}

\* -------------------------------------------------------------- the caller

\* steps after transition(s, event): a row other than SYSTEM_ERROR took
\* effect when transition returned a new object.
stepLabel(event) ==
    IF event.type = "VALIDATION_RESULT"
    THEN <<"VALIDATION_RESULT", event.result.type>>
    ELSE <<event.type>>

stepsAfter(log, s, event) ==
    IF event.type = "SYSTEM_ERROR" \/ transition(s, event).sameRef
    THEN log
    ELSE IF event.type \in {"START_CREATION", "UPDATE_DRAFT"}
         THEN <<>>
         ELSE Append(log, stepLabel(event))

RECURSIVE stepsAfterAll(_, _, _)
stepsAfterAll(log, s, events) ==
    IF events = <<>> THEN log
    ELSE stepsAfterAll(stepsAfter(log, s, Head(events)),
                       transition(s, Head(events)).state, Tail(events))

Init ==
    /\ current = [status |-> "idle"]
    /\ prev = [status |-> "idle"]
    /\ lastOp = [op |-> "none"]
    /\ sameRef = FALSE
    /\ steps = <<>>
    /\ rendered = [status |-> "idle"]
    /\ queue = <<>>

\* The caller replaces the state it holds with transition(current, event).
Dispatch(event) ==
    /\ current' = transition(current, event).state
    /\ sameRef' = transition(current, event).sameRef
    /\ prev' = current
    /\ lastOp' = [op |-> "transition", event |-> event]
    /\ steps' = stepsAfter(steps, current, event)
    /\ UNCHANGED <<rendered, queue>>

StartCreation == Dispatch([type |-> "START_CREATION"])

UpdateDraft == \E d \in Drafts : Dispatch([type |-> "UPDATE_DRAFT", draft |-> d])

Validate == Dispatch([type |-> "VALIDATE"])

ValidationResult ==
    \E r \in ValidationResults :
        Dispatch([type |-> "VALIDATION_RESULT", result |-> r])

Publish ==
    \E id \in CampaignIds : Dispatch([type |-> "PUBLISH", campaignId |-> id])

SystemError ==
    \E e \in SystemErrors : Dispatch([type |-> "SYSTEM_ERROR", error |-> e])

\* A state once validateCampaign has run the rules on the draft object it
\* shares with the state it was given and with the state it returns.
validated(s, ran) ==
    IF ran /\ "draft" \in DOMAIN s
    THEN [s EXCEPT !.draft = draftAfter(s.draft)]
    ELSE s

\* The caller replaces the state it holds with validateCampaign(current).
ValidateCampaign ==
    /\ current' = validated(validateCampaign(current).state,
                            current.status = "editing")
    /\ sameRef' = validateCampaign(current).sameRef
    /\ prev' = validated(current, current.status = "editing")
    /\ lastOp' = [op |-> "validateCampaign", state |-> current]
    /\ steps' = stepsAfterAll(steps, current,
                              validateCampaign(current).dispatched)
    /\ UNCHANGED <<rendered, queue>>

\* Every event dispatched by the caller, and the use case.
Next ==
    \/ StartCreation
    \/ UpdateDraft
    \/ Validate
    \/ ValidationResult
    \/ Publish
    \/ SystemError
    \/ ValidateCampaign

Spec == Init /\ [][Next]_vars

\* VALIDATE and VALIDATION_RESULT emitted only inside validateCampaign.
NextUseCase ==
    \/ StartCreation
    \/ UpdateDraft
    \/ Publish
    \/ SystemError
    \/ ValidateCampaign

SpecUseCase == Init /\ [][NextUseCase]_vars

\* ------------------------------------------------------ the rules, directly

\* Longest timeSlots list given to the time-slot rule on its own.
MaxSlotList == 3

\* SlotSamples and "12:00"-"15:00", which touches "08:00"-"12:00".
RuleSlotSamples ==
    SlotSamples
    \cup {[startTime |-> <<"1", "2", ":", "0", "0">>,
           endTime |-> <<"1", "5", ":", "0", "0">>]}

RuleNameSamples == {<<>>, <<" ", "\t">>, <<" ", "A", " ">>}

RuleDateStrings ==
    {"not-a-date", "2026-12-01T00:00:00Z", "2026-12-31T23:59:59Z"}

\* Drafts that violate any combination of the rules.
RuleDrafts ==
    {[name |-> n, startDate |-> a, endDate |-> b, screenIds |-> x,
      timeSlots |-> t, mediaAsset |-> m] :
        n \in RuleNameSamples, a \in RuleDateStrings, b \in RuleDateStrings,
        x \in {<<>>, <<"screen-2">>},
        t \in SeqsUpTo(RuleSlotSamples, MaxSlots), m \in MediaSamples}

Time(h1, h2, m1, m2) == <<h1, h2, ":", m1, m2>>

Slot(a, b) == [startTime |-> a, endTime |-> b]

\* Well-formed slots that overlap, nest, touch or share a start time, and
\* slots that are malformed in each way the rule tells apart.
SlotListSamples ==
    {Slot(Time("0", "8", "0", "0"), Time("1", "2", "0", "0")),
     Slot(Time("1", "1", "0", "0"), Time("1", "5", "0", "0")),
     Slot(Time("1", "2", "0", "0"), Time("1", "5", "0", "0")),
     Slot(Time("0", "8", "0", "0"), Time("0", "9", "0", "0")),
     Slot(Time("1", "0", "0", "0"), Time("1", "1", "0", "0")),
     Slot(Time("2", "5", "0", "0"), Time("1", "2", "0", "0")),
     Slot(Time("0", "8", "0", "0"), Time("1", "2", "6", "0")),
     Slot(<<"8", ":", "0", "0">>, Time("1", "2", "0", "0")),
     Slot(Time("1", "2", "0", "0"), Time("0", "8", "0", "0")),
     Slot(Time("0", "8", "0", "0"), Time("0", "8", "0", "0"))}

\* The caller holds an editing state with the draft d.
InitEditing(d) ==
    /\ current = [status |-> "editing", draft |-> d]
    /\ prev = [status |-> "idle"]
    /\ lastOp = [op |-> "none"]
    /\ sameRef = FALSE
    /\ steps = <<>>
    /\ rendered = [status |-> "idle"]
    /\ queue = <<>>

InitRules == \E d \in RuleDrafts : InitEditing(d)

InitSlots ==
    \E t \in SeqsUpTo(SlotListSamples, MaxSlotList) :
        InitEditing([validDraft EXCEPT !.timeSlots = t])

\* The caller runs validateCampaignDraft on the draft it edits.
ValidateCampaignDraft ==
    /\ current.status = "editing"
    /\ lastOp' = [op |-> "validateCampaignDraft", draft |-> current.draft,
                  errors |-> validateCampaignDraft(current.draft)]
    /\ current' = [current EXCEPT !.draft = draftAfter(current.draft)]
    /\ prev' = current
    /\ sameRef' = FALSE
    /\ UNCHANGED <<steps, rendered, queue>>

NextRules ==
    \/ ValidateCampaignDraft
    \/ ValidateCampaign

\* validateCampaignDraft and validateCampaign on drafts of every kind.
SpecRules == InitRules /\ [][NextRules]_vars

\* The same on the valid draft with every list of time slots.
SpecSlots == InitSlots /\ [][NextRules]_vars

\* ------------------------------------------- boundary contract (the schema)

\* parseHHmm of the schema: /^(\d{2}):(\d{2})$/, hours * 60 + minutes, with
\* no check of the ranges.
schemaParseHHmm(value) ==
    IF /\ Len(value) = 5
       /\ value[1] \in Digits /\ value[2] \in Digits
       /\ value[3] = ":"
       /\ value[4] \in Digits /\ value[5] \in Digits
    THEN Num((DigitVal(value[1]) * 10 + DigitVal(value[2])) * 60
             + DigitVal(value[4]) * 10 + DigitVal(value[5]))
    ELSE NaN

\* Mutant: the pattern of parseHHmm, any two digits on each side.
HHmmRegex_anyDigits(value) ==
    /\ Len(value) = 5
    /\ value[1] \in Digits /\ value[2] \in Digits
    /\ value[3] = ":"
    /\ value[4] \in Digits /\ value[5] \in Digits

\* /^([01]\d|2[0-3]):([0-5]\d)$/
HHmmRegex(value) ==
    /\ Len(value) = 5
    /\ \/ value[1] \in {"0", "1"} /\ value[2] \in Digits
       \/ value[1] = "2" /\ value[2] \in {"0", "1", "2", "3"}
    /\ value[3] = ":"
    /\ value[4] \in {"0", "1", "2", "3", "4", "5"}
    /\ value[5] \in Digits

\* An issue of the error the schema fails with: the path of the value it is
\* about (array indices written as strings) and the message.
Issue(path, message) == [path |-> path, message |-> message]

\* The outcome of one schema on one value: the issues it adds, and whether
\* parsing the value was aborted (the value has the wrong type), in which
\* case no refinement of an enclosing schema runs.
Outcome(aborted, issues) == [aborted |-> aborted, issues |-> issues]

\* z.string().regex(..., "Invalid HH:mm format")
HHmmSchema(value, path) ==
    IF HHmmRegex(value) THEN <<>>
    ELSE <<Issue(path, "Invalid HH:mm format")>>

\* TimeSlotSchema: the two fields, then the refinement, reported at
\* path + ["startTime"].
TimeSlotSchema(data, path) ==
    LET start == schemaParseHHmm(data.startTime)
        end == schemaParseHHmm(data.endTime)
    IN Outcome(FALSE,
         HHmmSchema(data.startTime, path \o <<"startTime">>)
         \o HHmmSchema(data.endTime, path \o <<"endTime">>)
         \o (IF ~isNaN(start) /\ ~isNaN(end) /\ NumGt(end, start)
             THEN <<>>
             ELSE <<Issue(path \o <<"startTime">>,
                          "startTime must be before endTime")>>))

\* .filter(s => !isNaN(parseHHmm(s.startTime)) && !isNaN(parseHHmm(s.endTime)))
schemaParses(s) ==
    ~isNaN(schemaParseHHmm(s.startTime)) /\ ~isNaN(schemaParseHHmm(s.endTime))

RECURSIVE schemaInsertByStart(_, _)
schemaInsertByStart(x, sorted) ==
    IF sorted = <<>> THEN <<x>>
    ELSE IF schemaParseHHmm(Head(sorted).startTime).val
              - schemaParseHHmm(x.startTime).val > 0
         THEN <<x>> \o sorted
         ELSE <<Head(sorted)>> \o schemaInsertByStart(x, Tail(sorted))

\* .sort((a, b) => parseHHmm(a.startTime) - parseHHmm(b.startTime))
RECURSIVE schemaSortByStart(_)
schemaSortByStart(slots) ==
    IF slots = <<>> THEN <<>>
    ELSE schemaInsertByStart(slots[Len(slots)],
             schemaSortByStart(SubSeq(slots, 1, Len(slots) - 1)))

\* The refinement of the timeSlots array.
slotsDoNotOverlap(slots) ==
    IF Len(slots) < 2 THEN TRUE
    ELSE LET sorted == schemaSortByStart(SelectSeq(slots, schemaParses))
         IN \A i \in 1..(Len(sorted) - 1) :
               ~NumGt(schemaParseHHmm(sorted[i].endTime),
                      schemaParseHHmm(sorted[i + 1].startTime))

RECURSIVE TimeSlotIssues(_, _)
TimeSlotIssues(slots, i) ==
    IF i > Len(slots) THEN <<>>
    ELSE TimeSlotSchema(slots[i], <<"timeSlots", ToString(i - 1)>>).issues
         \o TimeSlotIssues(slots, i + 1)

\* z.array(TimeSlotSchema).refine(...): the refinement's path ["timeSlots"]
\* is appended to the path of the array.
TimeSlotsSchema(slots) ==
    Outcome(FALSE,
        TimeSlotIssues(slots, 1)
        \o (IF slotsDoNotOverlap(slots) THEN <<>>
            ELSE <<Issue(<<"timeSlots", "timeSlots">>,
                         "Time slots must not overlap")>>))

\* z.string().url(): the strings of the model that are URLs.
IsUrl(s) == s = "https://example.com/winter.jpg"

\* z.string().datetime(): the strings of the model that are ISO 8601
\* date-times in UTC.
IsDatetime(s) == s \in {"2026-12-01T00:00:00Z", "2026-12-31T23:59:59Z"}

\* MediaAssetSchema: z.enum and z.number (NaN is no number) abort on a value
\* of the wrong type; the other fields are still parsed.
MediaAssetSchema(asset) ==
    Outcome(asset.type \notin {"image", "video"} \/ isNaN(asset.sizeInMb),
        (IF IsUrl(asset.url) THEN <<>>
         ELSE <<Issue(<<"mediaAsset", "url">>, "Must be a valid URL")>>)
        \o (IF asset.type \in {"image", "video"} THEN <<>>
            ELSE <<Issue(<<"mediaAsset", "type">>, "Invalid enum value")>>)
        \o (IF isNaN(asset.sizeInMb)
            THEN <<Issue(<<"mediaAsset", "sizeInMb">>,
                         "Expected number, received nan")>>
            ELSE IF NumGt(asset.sizeInMb, Num(50))
                 THEN <<Issue(<<"mediaAsset", "sizeInMb">>,
                              "Media size must be <= 50 MB")>>
                 ELSE <<>>))

\* The object of CampaignSchema, field by field in the order of its shape.
CampaignObject(data) ==
    LET media == MediaAssetSchema(data.mediaAsset)
    IN Outcome(media.aborted,
        (IF Len(trim(data.name)) >= 1 THEN <<>>
         ELSE <<Issue(<<"name">>, "Campaign name must not be empty")>>)
        \o (IF IsDatetime(data.startDate) THEN <<>>
            ELSE <<Issue(<<"startDate">>,
                         "Must be a valid ISO 8601 string")>>)
        \o (IF IsDatetime(data.endDate) THEN <<>>
            ELSE <<Issue(<<"endDate">>, "Must be a valid ISO 8601 string")>>)
        \o (IF Len(data.screenIds) > 0 THEN <<>>
            ELSE <<Issue(<<"screenIds">>,
                         "At least one screen must be selected")>>)
        \o TimeSlotsSchema(data.timeSlots).issues
        \o media.issues)

\* The refinement of CampaignSchema.
startBeforeEnd(data) ==
    LET start == DateParse(data.startDate)
        end == DateParse(data.endDate)
    IN IF isNaN(start) \/ isNaN(end) THEN TRUE ELSE NumGt(end, start)

\* CampaignSchema.parse(data): the parsed value (name trimmed), or the error
\* with its issues. The refinement runs unless the object was aborted.
CampaignSchema_parse(data) ==
    LET object == CampaignObject(data)
        issues == object.issues
                  \o (IF object.aborted \/ startBeforeEnd(data) THEN <<>>
                      ELSE <<Issue(<<"startDate">>,
                                   "startDate must be before endDate")>>)
    IN IF issues = <<>>
       THEN [success |-> TRUE, data |-> [data EXCEPT !.name = trim(data.name)]]
       ELSE [success |-> FALSE, issues |-> issues]

\* Slots the schema and the rules both take, reject, or disagree on.
BoundarySlotSamples ==
    {Slot(Time("0", "8", "0", "0"), Time("1", "2", "0", "0")),
     Slot(Time("1", "1", "0", "0"), Time("1", "5", "0", "0")),
     Slot(Time("1", "2", "0", "0"), Time("1", "5", "0", "0")),
     Slot(Time("2", "5", "0", "0"), Time("1", "2", "0", "0")),
     Slot(Time("0", "8", "0", "0"), Time("1", "2", "6", "0"))}

BoundaryMediaSamples ==
    MediaSamples
    \cup {[url |-> "not a url", type |-> "image", sizeInMb |-> Num(12)]}

\* External input in the shape of a draft.
BoundaryInputs ==
    {[name |-> n, startDate |-> a, endDate |-> b, screenIds |-> x,
      timeSlots |-> t, mediaAsset |-> m] :
        n \in RuleNameSamples, a \in RuleDateStrings, b \in RuleDateStrings,
        x \in {<<>>, <<"screen-2">>},
        t \in SeqsUpTo(BoundarySlotSamples, MaxSlots),
        m \in BoundaryMediaSamples}

\* The caller has received external input and holds no campaign yet.
InitBoundary ==
    \E data \in BoundaryInputs :
        /\ current = [status |-> "idle"]
        /\ prev = [status |-> "idle"]
        /\ lastOp = [op |-> "received", input |-> data]
        /\ sameRef = FALSE
        /\ steps = <<>>
        /\ rendered = [status |-> "idle"]
        /\ queue = <<>>

\* The caller runs the schema's validateCampaign(data) on the input.
ParseCampaign ==
    /\ lastOp.op = "received"
    /\ lastOp' = [op |-> "CampaignSchema.parse", input |-> lastOp.input,
                  result |-> CampaignSchema_parse(lastOp.input)]
    /\ prev' = current
    /\ sameRef' = FALSE
    /\ UNCHANGED <<current, steps, rendered, queue>>

NextBoundary == ParseCampaign

\* CampaignSchema.parse on external input of every kind.
SpecBoundary == InitBoundary /\ [][NextBoundary]_vars

\* ------------------------------------------------------------ CampaignForm

\* Most handler calls between two renders.
MaxQueue == 2

\* currentDraft(): the draft of the rendered state, or null.
currentDraft(state) ==
    IF state.status \in {"editing", "validating", "invalid",
                         "conflict_detected", "ready_to_publish"}
    THEN [null |-> FALSE, draft |-> state.draft]
    ELSE [null |-> TRUE]

\* { ...draft, ...patch } for a patch of one field, as the inputs give.
spread(draft, patch) == [draft EXCEPT ![patch.field] = patch.value]

\* The updater patchDraft gives to setState; draft is what currentDraft()
\* returned when patchDraft was called.
patchDraftUpdate(draft, patch) ==
    [fn |-> "transition",
     event |-> [type |-> "UPDATE_DRAFT", draft |-> spread(draft, patch)]]

handleStartCreationUpdate ==
    [fn |-> "transition", event |-> [type |-> "START_CREATION"]]

\* Mutant: the form dispatches VALIDATE itself.
handleValidateUpdate_dispatchesValidate ==
    [fn |-> "transition", event |-> [type |-> "VALIDATE"]]

handleValidateUpdate == [fn |-> "validateCampaign"]

handlePublishUpdate ==
    [fn |-> "transition",
     event |-> [type |-> "PUBLISH", campaignId |-> "demo-id"]]

\* An updater applied to the state React holds.
applyUpdate(s, update) ==
    IF update.fn = "transition"
    THEN transition(s, update.event).state
    ELSE validateCampaign(s).state

\* React runs the queued updaters in order, each on the result of the one
\* before.
RECURSIVE applyQueue(_, _)
applyQueue(s, updates) ==
    IF updates = <<>> THEN s
    ELSE applyQueue(applyUpdate(s, Head(updates).update), Tail(updates))

\* What the user types into the name, startDate and endDate inputs.
NameInputs == {<<"A", "d">>}

StartDateInputs == {"2026-12-01T00:00:00Z"}

EndDateInputs == {"2026-12-31T23:59:59Z"}

\* setState(updater): the updater waits for the next render.
SetState(entry) ==
    /\ Len(queue) < MaxQueue
    /\ queue' = Append(queue, entry)
    /\ UNCHANGED <<current, prev, lastOp, sameRef, steps, rendered>>

\* The button is shown while the rendered status is idle.
HandleStartCreation ==
    /\ rendered.status = "idle"
    /\ SetState([handler |-> "handleStartCreation",
                 update |-> handleStartCreationUpdate])

\* onChange of an input, shown while the rendered state has a draft.
patchDraft(patch) ==
    /\ ~currentDraft(rendered).null
    /\ SetState([handler |-> "patchDraft", patch |-> patch,
                 update |-> patchDraftUpdate(currentDraft(rendered).draft,
                                             patch)])

PatchDraft ==
    \/ \E v \in NameInputs : patchDraft([field |-> "name", value |-> v])
    \/ \E v \in StartDateInputs :
          patchDraft([field |-> "startDate", value |-> v])
    \/ \E v \in EndDateInputs :
          patchDraft([field |-> "endDate", value |-> v])

\* The Validate button, shown with the inputs and disabled while validating.
HandleValidate ==
    /\ ~currentDraft(rendered).null
    /\ rendered.status # "validating"
    /\ SetState([handler |-> "handleValidate",
                 update |-> handleValidateUpdate])

\* The Publish button, shown while the rendered status is ready_to_publish.
HandlePublish ==
    /\ rendered.status = "ready_to_publish"
    /\ SetState([handler |-> "handlePublish",
                 update |-> handlePublishUpdate])

\* React renders: the queued updaters run on the held state and the
\* handlers are bound to the new state. Whether a render comes between two
\* handler calls is React's choice.
Render ==
    /\ queue # <<>>
    /\ current' = applyQueue(current, queue)
    /\ rendered' = applyQueue(current, queue)
    /\ queue' = <<>>
    /\ prev' = current
    /\ lastOp' = [op |-> "render", queue |-> queue]
    /\ sameRef' = FALSE
    /\ UNCHANGED steps

NextForm ==
    \/ HandleStartCreation
    \/ PatchDraft
    \/ HandleValidate
    \/ HandlePublish
    \/ Render

\* The component, from useState({ status: "idle" }).
SpecForm == Init /\ [][NextForm]_vars

\* ------------------------------------------------------------------ claims

DraftFields ==
    {"name", "startDate", "endDate", "screenIds", "timeSlots", "mediaAsset"}

ValidationErrorCodes ==
    {"EMPTY_NAME", "INVALID_DATE_RANGE", "INVALID_DATE_FORMAT",
     "OVERLAPPING_TIME_SLOTS", "EMPTY_SCREEN_SELECTION",
     "MEDIA_SIZE_EXCEEDS_LIMIT", "MEDIA_TYPE_NOT_ALLOWED",
     "INVALID_TIME_FORMAT"}

\* s is one of the eight variants of CampaignCreationState, with the fields
\* of that variant and no other.
WellFormedState(s) ==
    /\ s.status \in Statuses
    /\ CASE s.status = "idle" -> DOMAIN s = {"status"}
         [] s.status \in {"editing", "validating", "conflict_detected",
                          "ready_to_publish"} ->
              DOMAIN s = {"status", "draft"} /\ DOMAIN s.draft = DraftFields
         [] s.status = "invalid" ->
              /\ DOMAIN s = {"status", "draft", "errors"}
              /\ DOMAIN s.draft = DraftFields
              /\ \A i \in 1..Len(s.errors) :
                    /\ DOMAIN s.errors[i] = {"code", "message"}
                    /\ s.errors[i].code \in ValidationErrorCodes
         [] s.status = "published" -> DOMAIN s = {"status", "campaignId"}
         [] s.status = "error" ->
              DOMAIN s = {"status", "error"} /\ DOMAIN s.error = {"message"}

\* The last call was transition with an event of the given type.
Dispatched(type) == lastOp.op = "transition" /\ lastOp.event.type = type

\* C1: transition is total: whatever state and event the last call of
\* transition was given, the state it returned is a well-formed
\* CampaignCreationState with one of the eight statuses.
C1_TransitionTotal ==
    lastOp.op = "transition" => WellFormedState(current)

\* An event with no row for a terminal state was dispatched to published.
C1_Witness ==
    /\ Dispatched("VALIDATION_RESULT")
    /\ prev.status = "published"
    /\ current.status = "published"

AllowedEdges ==
    {<<"idle", "editing">>, <<"editing", "validating">>,
     <<"validating", "invalid">>, <<"validating", "conflict_detected">>,
     <<"validating", "ready_to_publish">>, <<"invalid", "editing">>,
     <<"conflict_detected", "editing">>,
     <<"ready_to_publish", "published">>}
    \cup {<<from, "error">> : from \in Statuses}

\* C2: every status change made by transition follows an allowed edge.
C2_AllowedEdgesOnly ==
    (lastOp.op = "transition" /\ prev.status # current.status)
        => <<prev.status, current.status>> \in AllowedEdges

C2_Witness ==
    /\ Dispatched("UPDATE_DRAFT")
    /\ prev.status = "conflict_detected"
    /\ current.status = "editing"

\* The rows of the transition table.
InTable(s, event) ==
    \/ event.type = "SYSTEM_ERROR"
    \/ s.status = "idle" /\ event.type = "START_CREATION"
    \/ s.status = "editing" /\ event.type \in {"UPDATE_DRAFT", "VALIDATE"}
    \/ /\ s.status = "validating"
       /\ event.type = "VALIDATION_RESULT"
       /\ event.result.type \in {"invalid", "conflict", "valid"}
    \/ s.status \in {"invalid", "conflict_detected"}
         /\ event.type = "UPDATE_DRAFT"
    \/ s.status = "ready_to_publish" /\ event.type = "PUBLISH"

\* C3: for a (state, event) pair that is no row of the transition table,
\* transition returns the input state itself: the same object, with the
\* same status and payload.
C3_NoOpIdentity ==
    (lastOp.op = "transition" /\ ~InTable(prev, lastOp.event))
        => (current = prev /\ sameRef)

C3_Witness ==
    /\ Dispatched("VALIDATE")
    /\ prev.status = "invalid"
    /\ current = prev
    /\ sameRef

\* C4: SYSTEM_ERROR applied to any state, published and error included,
\* yields the error state carrying exactly the event's error.
C4_SystemErrorFromAnyState ==
    Dispatched("SYSTEM_ERROR")
        => /\ current.status = "error"
           /\ DOMAIN current = {"status", "error"}
           /\ current.error = lastOp.event.error
           /\ current.error.message = lastOp.event.error.message

C4_Witness ==
    /\ Dispatched("SYSTEM_ERROR")
    /\ prev.status = "published"
    /\ current.status = "error"

C6_ErrorAbsorbing ==
    [][current.status = "error"
         => /\ current'.status = "error"
            /\ (lastOp'.op = "transition"
                  /\ lastOp'.event.type # "SYSTEM_ERROR")
                 => (current' = current
                       /\ sameRef'
                       /\ current'.error.message = current.error.message)]_vars

C6_Witness ==
    /\ Dispatched("UPDATE_DRAFT")
    /\ prev.status = "error"
    /\ current = prev

\* C7: driven by START_CREATION, UPDATE_DRAFT, PUBLISH, SYSTEM_ERROR and
\* validateCampaign, a ready_to_publish state holds a draft for which
\* validateCampaignDraft returns the empty list.
C7_ReadyToPublishHasNoErrors ==
    current.status = "ready_to_publish"
        => validateCampaignDraft(current.draft) = <<>>

C7_Witness ==
    /\ lastOp.op = "validateCampaign"
    /\ prev.status = "editing"
    /\ current.status = "ready_to_publish"
    /\ Len(current.draft.timeSlots) = 1

\* C8: a published state is produced only by PUBLISH applied to
\* ready_to_publish; PUBLISH in idle, editing, validating, invalid or
\* conflict_detected leaves the state unchanged; and whenever the state is
\* published, the rows that took effect since the draft was last set are
\* VALIDATE, then VALIDATION_RESULT(valid), then PUBLISH.
C8_PublishedOnlyAfterValidation ==
    /\ (current.status = "published" /\ prev.status # "published")
          => (Dispatched("PUBLISH") /\ prev.status = "ready_to_publish")
    /\ (Dispatched("PUBLISH")
          /\ prev.status \in {"idle", "editing", "validating", "invalid",
                              "conflict_detected"})
          => current = prev
    /\ current.status = "published"
          => steps = <<<<"VALIDATE">>, <<"VALIDATION_RESULT", "valid">>,
                       <<"PUBLISH">>>>

C8_Witness ==
    /\ Dispatched("PUBLISH")
    /\ prev.status = "ready_to_publish"
    /\ current.status = "published"
    /\ current.campaignId = lastOp.event.campaignId

\* C9: an invalid state carries at least one error, whether validateCampaign
\* or a well-typed VALIDATION_RESULT(invalid) produced it.
C9_InvalidHasErrors ==
    current.status = "invalid" => Len(current.errors) >= 1

C9_Witness ==
    /\ lastOp.op = "validateCampaign"
    /\ prev.status = "editing"
    /\ current.status = "invalid"
    /\ Len(current.errors) = 2

\* C10: validateCampaign applied to a state whose status is not editing
\* returns that same state, unchanged.
C10_ValidateCampaignNoOpUnlessEditing ==
    (lastOp.op = "validateCampaign" /\ prev.status # "editing")
        => (current = prev /\ sameRef)

C10_Witness ==
    /\ lastOp.op = "validateCampaign"
    /\ prev.status = "conflict_detected"
    /\ current = prev
    /\ sameRef

\* ------------------------------------------- the invariants of a draft

\* The name is not blank after trimming.
NameNonBlank(name) == \E i \in 1..Len(name) : name[i] \notin WhiteSpace

\* The date strings that are dates, earliest first.
DatesInOrder == <<"2026-12-01T00:00:00Z", "2026-12-31T23:59:59Z">>

DateParseable(d) == \E i \in 1..Len(DatesInOrder) : DatesInOrder[i] = d

DateBefore(a, b) ==
    \E i, j \in 1..Len(DatesInOrder) :
        i < j /\ DatesInOrder[i] = a /\ DatesInOrder[j] = b

\* Two digits, a colon and two digits, hours 0-23 and minutes 0-59.
TimeWellFormed(t) ==
    /\ Len(t) = 5
    /\ \A i \in {1, 2, 4, 5} : t[i] \in Digits
    /\ t[3] = ":"
    /\ DigitVal(t[1]) * 10 + DigitVal(t[2]) \in 0..23
    /\ DigitVal(t[4]) * 10 + DigitVal(t[5]) \in 0..59

MinutesOf(t) ==
    (DigitVal(t[1]) * 10 + DigitVal(t[2])) * 60
        + DigitVal(t[4]) * 10 + DigitVal(t[5])

\* The slot is malformed, or does not start before it ends.
SlotOffending(slot) ==
    \/ ~TimeWellFormed(slot.startTime)
    \/ ~TimeWellFormed(slot.endTime)
    \/ MinutesOf(slot.startTime) >= MinutesOf(slot.endTime)

\* a.start < b.end and b.start < a.end
SlotsOverlap(a, b) ==
    /\ MinutesOf(a.startTime) < MinutesOf(b.endTime)
    /\ MinutesOf(b.startTime) < MinutesOf(a.endTime)

SomeSlotsOverlap(slots) ==
    \E i, j \in 1..Len(slots) : i # j /\ SlotsOverlap(slots[i], slots[j])

\* sizeInMb <= 50
SizeWithinLimit(size) == ~size.nan /\ size.val <= 50

\* Every invariant of a draft the rule validator enforces.
SatisfiesEveryRule(d) ==
    /\ NameNonBlank(d.name)
    /\ DateParseable(d.startDate) /\ DateParseable(d.endDate)
    /\ DateBefore(d.startDate, d.endDate)
    /\ Len(d.screenIds) > 0
    /\ \A i \in 1..Len(d.timeSlots) : ~SlotOffending(d.timeSlots[i])
    /\ ~SomeSlotsOverlap(d.timeSlots)
    /\ SizeWithinLimit(d.mediaAsset.sizeInMb)
    /\ d.mediaAsset.type \in {"image", "video"}

\* The last call was validateCampaign on an editing state.
ValidatedEditing == lastOp.op = "validateCampaign" /\ prev.status = "editing"

\* The codes of a list of errors, in order.
Codes(errors) == [i \in 1..Len(errors) |-> errors[i].code]

\* C11: for a draft that satisfies all five rules, validateCampaign on
\* editing{draft} returns ready_to_publish carrying that same draft.
C11_ValidDraftBecomesReadyToPublish ==
    (ValidatedEditing /\ SatisfiesEveryRule(prev.draft))
        => /\ current.status = "ready_to_publish"
           /\ DOMAIN current = {"status", "draft"}
           /\ current.draft = prev.draft

\* A valid draft with two time slots that touch was validated.
C11_Witness ==
    /\ ValidatedEditing
    /\ SatisfiesEveryRule(prev.draft)
    /\ Len(prev.draft.timeSlots) = 2
    /\ current.status = "ready_to_publish"

\* C12: for an editing state validateCampaign returns ready_to_publish or
\* invalid and nothing else; an invalid result carries the input draft and
\* the errors of validateCampaignDraft(draft), same elements, same order.
C12_ValidateCampaignOutcome ==
    ValidatedEditing
        => /\ current.status \in {"ready_to_publish", "invalid"}
           /\ current.status = "invalid"
                => /\ current.draft = prev.draft
                   /\ current.errors = validateCampaignDraft(prev.draft)

C12_Witness ==
    /\ ValidatedEditing
    /\ current.status = "invalid"
    /\ Len(current.errors) >= 3

\* C13: driven by START_CREATION, UPDATE_DRAFT, PUBLISH, SYSTEM_ERROR and
\* validateCampaign, the status is never conflict_detected.
C13_ConflictDetectedUnreachable == current.status # "conflict_detected"

\* A draft whose time slots overlap was validated: it is invalid.
C13_Witness ==
    /\ ValidatedEditing
    /\ current.status = "invalid"
    /\ \E i \in 1..Len(current.errors) :
          current.errors[i].code = "OVERLAPPING_TIME_SLOTS"

\* The last call was validateCampaignDraft.
RulesRan == lastOp.op = "validateCampaignDraft"

\* C14: validateCampaignDraft returns the empty list if and only if the
\* draft satisfies every invariant: name non-blank after trimming, both
\* dates parseable with startDate < endDate, screenIds non-empty, every
\* time slot well-formed with startTime < endTime, no two time slots
\* overlapping, sizeInMb <= 50 and type image or video.
C14_EmptyIffEveryInvariant ==
    RulesRan => (lastOp.errors = <<>> <=> SatisfiesEveryRule(lastOp.draft))

HasCode(errors, code) == \E i \in 1..Len(errors) : errors[i].code = code

WithCode(errors, code) ==
    LET IsCode(e) == e.code = code IN SelectSeq(errors, IsCode)

AllSlotsWellFormed(slots) ==
    \A i \in 1..Len(slots) : ~SlotOffending(slots[i])

\* Every reordering of a list.
Reorderings(seq) ==
    {[i \in 1..Len(seq) |-> seq[p[i]]] :
        p \in {f \in [1..Len(seq) -> 1..Len(seq)] :
                 \A i, j \in 1..Len(seq) : f[i] = f[j] => i = j}}

\* C15: when every slot is well-formed, validateCampaignDraft emits an
\* OVERLAPPING_TIME_SLOTS error if and only if two slots at different
\* positions overlap (a.start < b.end and b.start < a.end); slots that only
\* touch produce none; and whether one is present is the same for every
\* order of the slots.
C15_OverlapDetected ==
    (RulesRan /\ AllSlotsWellFormed(lastOp.draft.timeSlots))
        => /\ HasCode(lastOp.errors, "OVERLAPPING_TIME_SLOTS")
                <=> SomeSlotsOverlap(lastOp.draft.timeSlots)
           /\ \A t \in Reorderings(lastOp.draft.timeSlots) :
                HasCode(validateCampaignDraft(
                            [lastOp.draft EXCEPT !.timeSlots = t]),
                        "OVERLAPPING_TIME_SLOTS")
                    <=> HasCode(lastOp.errors, "OVERLAPPING_TIME_SLOTS")

\* Three well-formed slots of which only the first and the last overlap.
C15_Witness ==
    /\ RulesRan
    /\ Len(lastOp.draft.timeSlots) = 3
    /\ AllSlotsWellFormed(lastOp.draft.timeSlots)
    /\ ~SlotsOverlap(lastOp.draft.timeSlots[1], lastOp.draft.timeSlots[2])
    /\ ~SlotsOverlap(lastOp.draft.timeSlots[2], lastOp.draft.timeSlots[3])
    /\ SlotsOverlap(lastOp.draft.timeSlots[1], lastOp.draft.timeSlots[3])
    /\ HasCode(lastOp.errors, "OVERLAPPING_TIME_SLOTS")

\* C16: no result of validateCampaignDraft holds both an
\* INVALID_TIME_FORMAT and an OVERLAPPING_TIME_SLOTS error.
C16_NoOverlapCheckWhenMalformed ==
    RulesRan
        => ~(/\ HasCode(lastOp.errors, "INVALID_TIME_FORMAT")
             /\ HasCode(lastOp.errors, "OVERLAPPING_TIME_SLOTS"))

\* A malformed slot next to two well-formed slots that overlap.
C16_Witness ==
    /\ RulesRan
    /\ HasCode(lastOp.errors, "INVALID_TIME_FORMAT")
    /\ \E i, j \in 1..Len(lastOp.draft.timeSlots) :
          /\ i # j
          /\ ~SlotOffending(lastOp.draft.timeSlots[i])
          /\ ~SlotOffending(lastOp.draft.timeSlots[j])
          /\ SlotsOverlap(lastOp.draft.timeSlots[i],
                          lastOp.draft.timeSlots[j])

\* The message of an INVALID_TIME_FORMAT error quotes the slot's startTime
\* after its first fragment and the slot's endTime one fragment later.
MessageNamesSlot(message, slot) ==
    LET n == Len(slot.startTime)
        m == Len(slot.endTime)
    IN /\ Len(message) >= n + m + 2
       /\ SubSeq(message, 2, n + 1) = slot.startTime
       /\ SubSeq(message, n + 3, n + m + 2) = slot.endTime

\* C17: the time-slot rule emits exactly one INVALID_TIME_FORMAT error per
\* offending slot and none for the others, in slot order.
C17_OneFormatErrorPerOffendingSlot ==
    RulesRan
        => LET found == WithCode(lastOp.errors, "INVALID_TIME_FORMAT")
               offending == SelectSeq(lastOp.draft.timeSlots, SlotOffending)
           IN /\ Len(found) = Len(offending)
              /\ \A k \in 1..Len(found) :
                    MessageNamesSlot(found[k].message, offending[k])

\* Two different offending slots around a well-formed one.
C17_Witness ==
    /\ RulesRan
    /\ Len(lastOp.draft.timeSlots) = 3
    /\ SlotOffending(lastOp.draft.timeSlots[1])
    /\ ~SlotOffending(lastOp.draft.timeSlots[2])
    /\ SlotOffending(lastOp.draft.timeSlots[3])
    /\ lastOp.draft.timeSlots[1] # lastOp.draft.timeSlots[3]
    /\ Len(WithCode(lastOp.errors, "INVALID_TIME_FORMAT")) = 2

\* The errors whose code is one of a set, in order.
WithCodes(errors, codes) ==
    LET IsOne(e) == e.code \in codes IN SelectSeq(errors, IsOne)

DateCodes == {"INVALID_DATE_FORMAT", "INVALID_DATE_RANGE"}

TimeSlotCodes == {"INVALID_TIME_FORMAT", "OVERLAPPING_TIME_SLOTS"}

MediaCodes == {"MEDIA_SIZE_EXCEEDS_LIMIT", "MEDIA_TYPE_NOT_ALLOWED"}

\* C18: the date rule emits INVALID_DATE_FORMAT alone when startDate or
\* endDate is unparseable, otherwise INVALID_DATE_RANGE alone when
\* start >= end (start = end included), and nothing when start < end.
C18_DateRuleOneErrorOrNone ==
    RulesRan
        => Codes(WithCodes(lastOp.errors, DateCodes))
             = IF ~DateParseable(lastOp.draft.startDate)
                    \/ ~DateParseable(lastOp.draft.endDate)
               THEN <<"INVALID_DATE_FORMAT">>
               ELSE IF DateBefore(lastOp.draft.startDate,
                                  lastOp.draft.endDate)
                    THEN <<>>
                    ELSE <<"INVALID_DATE_RANGE">>

\* startDate equals endDate.
C18_Witness ==
    /\ RulesRan
    /\ DateParseable(lastOp.draft.startDate)
    /\ lastOp.draft.startDate = lastOp.draft.endDate
    /\ HasCode(lastOp.errors, "INVALID_DATE_RANGE")

\* sizeInMb > 50
SizeOverLimit(size) == ~size.nan /\ size.val > 50

\* C19: the media rule emits MEDIA_SIZE_EXCEEDS_LIMIT if and only if
\* sizeInMb > 50 and MEDIA_TYPE_NOT_ALLOWED if and only if the type is
\* neither image nor video, each whatever the other, size first.
C19_MediaRule ==
    RulesRan
        => Codes(WithCodes(lastOp.errors, MediaCodes))
             = (IF SizeOverLimit(lastOp.draft.mediaAsset.sizeInMb)
                THEN <<"MEDIA_SIZE_EXCEEDS_LIMIT">> ELSE <<>>)
               \o (IF lastOp.draft.mediaAsset.type \notin {"image", "video"}
                   THEN <<"MEDIA_TYPE_NOT_ALLOWED">> ELSE <<>>)

\* 50 MB itself, with a type that is not allowed.
C19_Witness ==
    /\ RulesRan
    /\ lastOp.draft.mediaAsset.sizeInMb = Num(50)
    /\ lastOp.draft.mediaAsset.type = "audio"
    /\ Codes(WithCodes(lastOp.errors, MediaCodes))
         = <<"MEDIA_TYPE_NOT_ALLOWED">>

\* The rule a code belongs to, 1 to 5.
RuleOf(code) ==
    CASE code = "EMPTY_NAME" -> 1
      [] code \in DateCodes -> 2
      [] code = "EMPTY_SCREEN_SELECTION" -> 3
      [] code \in TimeSlotCodes -> 4
      [] code \in MediaCodes -> 5

CodesOfRule(r) == {c \in ValidationErrorCodes : RuleOf(c) = r}

\* The valid draft with what rule r reads taken from the draft d.
OnlyRule(r, d) ==
    CASE r = 1 -> [validDraft EXCEPT !.name = d.name]
      [] r = 2 -> [validDraft EXCEPT !.startDate = d.startDate,
                                     !.endDate = d.endDate]
      [] r = 3 -> [validDraft EXCEPT !.screenIds = d.screenIds]
      [] r = 4 -> [validDraft EXCEPT !.timeSlots = d.timeSlots]
      [] r = 5 -> [validDraft EXCEPT !.mediaAsset = d.mediaAsset]

\* C20: the errors of validateCampaignDraft come in rule order (name, date,
\* screens, time slots, media); repeated errors are kept; and the errors of
\* one rule are the same whatever the other rules emit.
C20_ErrorsInRuleOrder ==
    RulesRan
        => /\ \A i, j \in 1..Len(lastOp.errors) :
                i < j => RuleOf(lastOp.errors[i].code)
                           <= RuleOf(lastOp.errors[j].code)
           /\ Len(WithCode(lastOp.errors, "INVALID_TIME_FORMAT"))
                = Len(SelectSeq(lastOp.draft.timeSlots, SlotOffending))
           /\ \A r \in 1..5 :
                WithCodes(lastOp.errors, CodesOfRule(r))
                    = validateCampaignDraft(OnlyRule(r, lastOp.draft))

\* Every rule fails at once, the time-slot rule twice on the same slot.
C20_Witness ==
    /\ RulesRan
    /\ \A r \in 1..5 : WithCodes(lastOp.errors, CodesOfRule(r)) # <<>>
    /\ Len(lastOp.draft.timeSlots) = 2
    /\ lastOp.draft.timeSlots[1] = lastOp.draft.timeSlots[2]
    /\ Len(WithCode(lastOp.errors, "INVALID_TIME_FORMAT")) = 2

\* C21: START_CREATION on idle yields editing with the empty default draft
\* (blank name and dates, one empty screenId, no time slots, media asset
\* {url "", type image, sizeInMb 0}); on any other state it has no effect.
C21_StartCreation ==
    Dispatched("START_CREATION")
        => IF prev.status = "idle"
           THEN current
                  = [status |-> "editing",
                     draft |-> [name |-> <<>>, startDate |-> "",
                                endDate |-> "", screenIds |-> <<"">>,
                                timeSlots |-> <<>>,
                                mediaAsset |-> [url |-> "", type |-> "image",
                                                sizeInMb |-> Num(0)]]]
           ELSE sameRef /\ current = prev

C21_Witness ==
    /\ Dispatched("START_CREATION")
    /\ prev.status = "idle"
    /\ current.status = "editing"
    /\ current.draft.screenIds = <<"">>

\* C22: UPDATE_DRAFT on editing, invalid or conflict_detected yields editing
\* holding exactly the event's draft and nothing else of the old state.
C22_UpdateDraftReplaces ==
    (Dispatched("UPDATE_DRAFT")
       /\ prev.status \in {"editing", "invalid", "conflict_detected"})
        => current = [status |-> "editing", draft |-> lastOp.event.draft]

\* An invalid state gets a draft that differs from its own.
C22_Witness ==
    /\ Dispatched("UPDATE_DRAFT")
    /\ prev.status = "invalid"
    /\ prev.draft # lastOp.event.draft
    /\ current.status = "editing"
    /\ current.draft = lastOp.event.draft

\* C23: VALIDATE on editing{draft} yields validating with the same draft.
C23_ValidateKeepsDraft ==
    (Dispatched("VALIDATE") /\ prev.status = "editing")
        => current = [status |-> "validating", draft |-> prev.draft]

C23_Witness ==
    /\ Dispatched("VALIDATE")
    /\ prev.status = "editing"
    /\ prev.draft = validDraft
    /\ current.status = "validating"

\* C24: VALIDATION_RESULT on validating{draft} yields invalid{draft, errors
\* of the event}, conflict_detected{draft} or ready_to_publish{draft}
\* according to the result's type alone; on any other state it has no effect.
C24_ValidationResult ==
    Dispatched("VALIDATION_RESULT")
        => IF prev.status = "validating"
           THEN current
                  = CASE lastOp.event.result.type = "invalid" ->
                           [status |-> "invalid", draft |-> prev.draft,
                            errors |-> lastOp.event.result.errors]
                      [] lastOp.event.result.type = "conflict" ->
                           [status |-> "conflict_detected",
                            draft |-> prev.draft]
                      [] lastOp.event.result.type = "valid" ->
                           [status |-> "ready_to_publish",
                            draft |-> prev.draft]
           ELSE sameRef /\ current = prev

\* A conflict result on a draft the rules reject.
C24_Witness ==
    /\ Dispatched("VALIDATION_RESULT")
    /\ prev.status = "validating"
    /\ lastOp.event.result.type = "conflict"
    /\ validateCampaignDraft(prev.draft) # <<>>
    /\ current.status = "conflict_detected"

\* C25: PUBLISH{campaignId} on ready_to_publish yields published with the
\* event's campaignId and no draft.
C25_PublishDiscardsDraft ==
    (Dispatched("PUBLISH") /\ prev.status = "ready_to_publish")
        => /\ current = [status |-> "published",
                         campaignId |-> lastOp.event.campaignId]
           /\ DOMAIN current = {"status", "campaignId"}

C25_Witness ==
    /\ Dispatched("PUBLISH")
    /\ prev.status = "ready_to_publish"
    /\ prev.draft = validDraft
    /\ current = [status |-> "published", campaignId |-> "camp-42"]

\* The state after transition(s, event).
After(s, event) == transition(s, event).state

\* C26: from idle, START_CREATION, UPDATE_DRAFT with a valid draft,
\* validateCampaign and PUBLISH{id} pass through editing{empty draft},
\* editing{valid draft} and ready_to_publish and end in
\* published{campaignId: id}.
C26_EndToEndPath ==
    current.status = "idle"
        => \A d \in Drafts, id \in CampaignIds :
              SatisfiesEveryRule(d)
                => LET s1 == After(current, [type |-> "START_CREATION"])
                       s2 == After(s1, [type |-> "UPDATE_DRAFT", draft |-> d])
                       s3 == validateCampaign(s2).state
                       s4 == After(s3, [type |-> "PUBLISH",
                                        campaignId |-> id])
                   IN /\ s1 = [status |-> "editing", draft |-> emptyDraft]
                      /\ s2 = [status |-> "editing", draft |-> d]
                      /\ s3 = [status |-> "ready_to_publish", draft |-> d]
                      /\ s4 = [status |-> "published", campaignId |-> id]

\* The end of the path, reached by the caller's own steps.
C26_Witness ==
    /\ Dispatched("PUBLISH")
    /\ prev = [status |-> "ready_to_publish", draft |-> validDraft]
    /\ current = [status |-> "published", campaignId |-> "camp-42"]
    /\ steps = <<<<"VALIDATE">>, <<"VALIDATION_RESULT", "valid">>,
                 <<"PUBLISH">>>>

\* C27: from every invalid state, UPDATE_DRAFT with a draft that satisfies
\* the rules followed by validateCampaign reaches ready_to_publish, and with
\* a draft that does not it returns to invalid, from where the same holds.
C27_ValidationErrorsRecoverable ==
    current.status = "invalid"
        => \A d \in Drafts :
              LET s1 == After(current, [type |-> "UPDATE_DRAFT", draft |-> d])
                  s2 == validateCampaign(s1).state
              IN /\ s1 = [status |-> "editing", draft |-> d]
                 /\ IF SatisfiesEveryRule(d)
                    THEN s2 = [status |-> "ready_to_publish", draft |-> d]
                    ELSE validateCampaignDraft(d) # <<>>
                           => s2.status = "invalid" /\ s2.draft = d

\* An invalid state has just been given a draft that satisfies the rules.
C27_Witness ==
    /\ Dispatched("UPDATE_DRAFT")
    /\ prev.status = "invalid"
    /\ SatisfiesEveryRule(current.draft)
    /\ validateCampaign(current).state.status = "ready_to_publish"

Parsed == lastOp.op = "CampaignSchema.parse"

\* C28: every input CampaignSchema.parse accepts yields no error from
\* validateCampaignDraft, as given and as parsed, so validateCampaign on
\* editing with the parsed draft yields ready_to_publish.
C28_BoundaryAdmitsOnlyValidDrafts ==
    (Parsed /\ lastOp.result.success)
        => /\ validateCampaignDraft(lastOp.input) = <<>>
           /\ validateCampaignDraft(lastOp.result.data) = <<>>
           /\ validateCampaign([status |-> "editing",
                                draft |-> lastOp.result.data]).state
                = [status |-> "ready_to_publish",
                   draft |-> lastOp.result.data]

\* An accepted input whose name is trimmed and whose time slots touch.
C28_Witness ==
    /\ Parsed
    /\ lastOp.result.success
    /\ lastOp.result.data.name # lastOp.input.name
    /\ Len(lastOp.input.timeSlots) = 2

\* A constraint of the contract the input violates is named by the issues.
Named(path, message) ==
    \E i \in 1..Len(lastOp.result.issues) :
        lastOp.result.issues[i] = Issue(path, message)

\* C29: CampaignSchema.parse returns the draft or fails with an error that
\* names every violation of the input: blank name, unparseable dates, start
\* date not before end date, empty screenIds, each offending time slot,
\* overlapping slots, bad URL, media type, size over 50.
C29_EveryViolationReported ==
    Parsed
        => LET d == lastOp.input
           IN IF SatisfiesEveryRule(d) /\ IsUrl(d.mediaAsset.url)
              THEN lastOp.result.success
              ELSE /\ ~lastOp.result.success
                   /\ ~NameNonBlank(d.name)
                        => Named(<<"name">>, "Campaign name must not be empty")
                   /\ ~DateParseable(d.startDate)
                        => Named(<<"startDate">>,
                                 "Must be a valid ISO 8601 string")
                   /\ ~DateParseable(d.endDate)
                        => Named(<<"endDate">>,
                                 "Must be a valid ISO 8601 string")
                   /\ (DateParseable(d.startDate) /\ DateParseable(d.endDate)
                         /\ ~DateBefore(d.startDate, d.endDate))
                        => Named(<<"startDate">>,
                                 "startDate must be before endDate")
                   /\ Len(d.screenIds) = 0
                        => Named(<<"screenIds">>,
                                 "At least one screen must be selected")
                   /\ \A i \in 1..Len(d.timeSlots) :
                        SlotOffending(d.timeSlots[i])
                          => \E k \in 1..Len(lastOp.result.issues) :
                                LET path == lastOp.result.issues[k].path
                                IN /\ Len(path) = 3
                                   /\ path[1] = "timeSlots"
                                   /\ path[2] = ToString(i - 1)
                   /\ (AllSlotsWellFormed(d.timeSlots)
                         /\ SomeSlotsOverlap(d.timeSlots))
                        => Named(<<"timeSlots", "timeSlots">>,
                                 "Time slots must not overlap")
                   /\ ~IsUrl(d.mediaAsset.url)
                        => Named(<<"mediaAsset", "url">>,
                                 "Must be a valid URL")
                   /\ d.mediaAsset.type \notin {"image", "video"}
                        => Named(<<"mediaAsset", "type">>,
                                 "Invalid enum value")
                   /\ ~SizeWithinLimit(d.mediaAsset.sizeInMb)
                        => \E k \in 1..Len(lastOp.result.issues) :
                              lastOp.result.issues[k].path
                                = <<"mediaAsset", "sizeInMb">>

C31_ValidateCampaignIdempotent ==
    validateCampaign(validateCampaign(current).state).state
        = validateCampaign(current).state

\* validateCampaign has turned an editing state into an invalid one, on
\* which a second call changes nothing.
C31_Witness ==
    /\ ValidatedEditing
    /\ current.status = "invalid"
    /\ validateCampaign(current).state = current

\* C32: inside validateCampaign the VALIDATE dispatch on an editing state
\* yields validating, so the fallback that returns the input state is never
\* taken: both events are dispatched and a new state is returned.
C32_FallbackNeverTaken ==
    /\ current.status = "editing"
         => /\ After(current, [type |-> "VALIDATE"]).status = "validating"
            /\ Len(validateCampaign(current).dispatched) = 2
    /\ ValidatedEditing
         => ~sameRef /\ current.status \in {"invalid", "ready_to_publish"}

C32_Witness ==
    /\ ValidatedEditing
    /\ ~sameRef
    /\ current.status = "ready_to_publish"
    /\ Len(validateCampaign(prev).dispatched) = 2

\* C33: validateCampaign on the editing state START_CREATION produces from
\* idle yields invalid with errors exactly EMPTY_NAME, INVALID_DATE_FORMAT in
\* that order; the placeholder screenId raises no EMPTY_SCREEN_SELECTION.
C33_NewDraftNotPublishable ==
    /\ current.status = "idle"
         => LET s1 == After(current, [type |-> "START_CREATION"])
                s2 == validateCampaign(s1).state
            IN /\ s2.status = "invalid"
               /\ s2.draft = s1.draft
               /\ Codes(s2.errors) = <<"EMPTY_NAME", "INVALID_DATE_FORMAT">>
    /\ (ValidatedEditing /\ prev.draft.name = <<>> /\ prev.draft.startDate = ""
          /\ prev.draft.endDate = "" /\ prev.draft.screenIds = <<"">>
          /\ prev.draft.timeSlots = <<>>
          /\ prev.draft.mediaAsset
               = [url |-> "", type |-> "image", sizeInMb |-> Num(0)])
         => /\ current.status = "invalid"
            /\ Codes(current.errors) = <<"EMPTY_NAME", "INVALID_DATE_FORMAT">>

\* The new draft has been validated as it was created.
C33_Witness ==
    /\ ValidatedEditing
    /\ prev.draft.screenIds = <<"">>
    /\ prev.draft.name = <<>>
    /\ current.status = "invalid"
    /\ ~HasCode(current.errors, "EMPTY_SCREEN_SELECTION")
    /\ steps = <<<<"VALIDATE">>, <<"VALIDATION_RESULT", "invalid">>>>

Frozen == {"validating", "ready_to_publish"}

\* C34: UPDATE_DRAFT and VALIDATE have no effect in validating and in
\* ready_to_publish; from ready_to_publish only ready_to_publish, published
\* and error are reachable; and the draft is carried unchanged from
\* validating to ready_to_publish and until PUBLISH.
C34_DraftFrozenOnceValidating ==
    /\ ((Dispatched("UPDATE_DRAFT") \/ Dispatched("VALIDATE"))
          /\ prev.status \in Frozen)
         => sameRef /\ current = prev
    /\ prev.status \in {"ready_to_publish", "published", "error"}
         => current.status \in {"ready_to_publish", "published", "error"}
    /\ (prev.status \in Frozen /\ "draft" \in DOMAIN current)
         => current.draft = prev.draft

\* UPDATE_DRAFT with another draft has bounced off ready_to_publish.
C34_Witness ==
    /\ Dispatched("UPDATE_DRAFT")
    /\ prev.status = "ready_to_publish"
    /\ lastOp.event.draft # prev.draft
    /\ current = prev

\* C35: when VALIDATE and VALIDATION_RESULT are dispatched by validateCampaign
\* only, the errors of an invalid state are those of validateCampaignDraft on
\* the draft it holds.
C35_ErrorsNeverStale ==
    current.status = "invalid"
        => current.errors = validateCampaignDraft(current.draft)

\* A draft with two errors, validated after an invalid draft was replaced.
C35_Witness ==
    /\ ValidatedEditing
    /\ current.status = "invalid"
    /\ Len(current.errors) >= 2
    /\ current.draft # emptyDraft

FormStatuses ==
    {"idle", "editing", "invalid", "ready_to_publish", "published"}

\* C36: driven through CampaignForm's handlers from idle, the state held and
\* the state rendered are idle, editing, invalid, ready_to_publish or
\* published, never validating, conflict_detected or error.
C36_FormStatuses ==
    current.status \in FormStatuses /\ rendered.status \in FormStatuses

\* The form has validated and published a campaign.
C36_Witness ==
    /\ lastOp.op = "render"
    /\ prev.status = "ready_to_publish"
    /\ current = [status |-> "published", campaignId |-> "demo-id"]

\* The patches applied one on top of the other, starting from a draft.
RECURSIVE Accumulated(_, _)
Accumulated(draft, entries) ==
    IF entries = <<>> THEN draft
    ELSE Accumulated(spread(draft, Head(entries).patch), Tail(entries))

\* C37: after patchDraft calls on an editing or invalid state, whether or not
\* a render came between them, the editing draft holds every patch, each
\* applied on top of the draft of the latest state.
C37_PatchesAccumulate ==
    (/\ lastOp.op = "render"
     /\ prev.status \in {"editing", "invalid"}
     /\ \A i \in 1..Len(lastOp.queue) : lastOp.queue[i].handler = "patchDraft")
        => current = [status |-> "editing",
                      draft |-> Accumulated(prev.draft, lastOp.queue)]

\* C38: for every list of well-formed slots and every reordering of it,
\* validateCampaignDraft returns the same number of OVERLAPPING_TIME_SLOTS
\* errors, also when several slots share a start time.
C38_OverlapCountOrderIndependent ==
    (RulesRan /\ AllSlotsWellFormed(lastOp.draft.timeSlots))
        => \A t \in Reorderings(lastOp.draft.timeSlots) :
              Len(WithCode(validateCampaignDraft(
                               [lastOp.draft EXCEPT !.timeSlots = t]),
                           "OVERLAPPING_TIME_SLOTS"))
                = Len(WithCode(lastOp.errors, "OVERLAPPING_TIME_SLOTS"))

====
